---- MODULE Spec2Model ----
(***************************************************************************)
(* The render loop of al-engine's VulkanApp: draw_frame, the swapchain     *)
(* recreation it triggers (recreate_swapchain / cleanup_swapchain) and the *)
(* GPU that completes submitted work asynchronously.                       *)
(*                                                                         *)
(* One CPU thread runs draw_frame statement by statement (pc); the GPU     *)
(* retires queue submissions in submission order and signals the fence     *)
(* each submission names.  Vulkan objects that depend on the swapchain are *)
(* pairs <<kind, generation>>; `live` holds those that exist on the        *)
(* device, `field` the handle the VulkanApp struct holds for each kind.    *)
(* The event loop delivers window events between frames and ends in Drop.  *)
(*                                                                         *)
(* LiveSpec is the same loop with the fairness of its scheduling.          *)
(*                                                                         *)
(* Further specifications cover what runs while the VulkanApp is built:    *)
(* UploadSpec, the staged buffer uploads statement by statement with the   *)
(* GPU executing the copy; ChooseSpec, the surface format and presentation *)
(* mode selections applied to the lists a surface may report; ExtentSpec   *)
(* and ImageCountSpec, the extent and the image count chosen from the      *)
(* capabilities a surface may report.  FpsSpec is the FpsLimiter that      *)
(* main_loop ticks before each frame.                                      *)
(***************************************************************************)
EXTENDS Integers, Sequences, FiniteSets, TLC

\* renderer.rs: number of frame slots.
MAX_FRAMES_IN_FLIGHT == 2

\* Bounds of the model: swapchain recreations per run, images per swapchain.
MaxRecreate == 2
MaxImages == 3

Slots == 0 .. (MAX_FRAMES_IN_FLIGHT - 1)

VARIABLES
    pc,               \* the statement the CPU thread is at
    rc_ret,           \* what follows recreate_swapchain: "return" or "advance"
    step,             \* position in CleanupOrder / CreateOrder
    current_frame,    \* VulkanApp.current_frame
    inflight_fences,  \* SyncObjects.inflight_fences: slot -> signaled
    gpu_queue,        \* submissions the GPU has not completed, oldest first
    live,             \* swapchain-dependent objects that exist: <<kind, gen>>
    refs,             \* <<object, object it references>>
    field,            \* kind -> generation of the handle VulkanApp holds
    generation,       \* swapchains created after the first one
    n_images,         \* swapchain_container.images.len()
    uniform_buffers,  \* uniform_buffers.len()
    descriptor_sets,  \* descriptor_sets.len()
    image_index,      \* image acquired by the running draw_frame
    waited,           \* slots whose fence the running draw_frame saw signaled
    frame,            \* what the running (or last) draw_frame saw and did
    total,            \* stale reports and recreate_swapchain calls of the run
    fatal_error,      \* a call returned an error other than the stale signal
    panic_at,         \* the statement that panicked
    destroy_log,      \* kinds destroyed by the running cleanup_swapchain
    slot_log,         \* slots of the last two submissions, oldest first
    sync_objects,     \* SyncObjects: the semaphores and fences that exist
    upload,           \* the staged buffer upload that is running, if any
    choice,           \* a surface format / presentation mode selection
    limiter           \* the FpsLimiter of main_loop

vars == <<pc, rc_ret, step, current_frame, inflight_fences, gpu_queue, live,
          refs, field, generation, n_images, uniform_buffers, descriptor_sets,
          image_index, waited, frame, total, fatal_error, panic_at,
          destroy_log, slot_log, sync_objects, upload, choice, limiter>>

sync_vars == <<current_frame, inflight_fences>>
res_vars == <<live, refs, field, generation, n_images, destroy_log>>
buf_vars == <<uniform_buffers, descriptor_sets>>
\* What no statement of draw_frame or recreate_swapchain assigns.
fixed_vars == <<buf_vars, sync_objects, upload, choice, limiter>>

----------------------------------------------------------------------------
(* Results of the Vulkan calls and how ash and the code read them.         *)

\* VkResult values a fallible call may return besides the swapchain ones.
ExpectResults == {"SUCCESS", "ERROR_DEVICE_LOST"}
SwapchainResults ==
    {"SUCCESS", "SUBOPTIMAL_KHR", "ERROR_OUT_OF_DATE_KHR", "ERROR_DEVICE_LOST"}

\* ash's Swapchain::acquire_next_image: VkResult<(u32, bool)>, the bool being
\* "suboptimal"; the code destructures it as (image_index, _is_sub_optimal).
AshAcquire(r, i) ==
    [ok |-> r \in {"SUCCESS", "SUBOPTIMAL_KHR"},
     image |-> i,
     suboptimal |-> (r = "SUBOPTIMAL_KHR"),
     err |-> r]

\* ash's Swapchain::queue_present: VkResult<bool>, Ok(true) when suboptimal.
AshPresent(r) ==
    [ok |-> r \in {"SUCCESS", "SUBOPTIMAL_KHR"},
     suboptimal |-> (r = "SUBOPTIMAL_KHR"),
     err |-> r]

\* draw_frame's match on the acquire result.
AcquireMatch(res) ==
    IF res.ok THEN "image"
    ELSE IF res.err = "ERROR_OUT_OF_DATE_KHR" THEN "recreate"
    ELSE "panic"

\* draw_frame's match on the present result: need_new_swapchain, or a panic.
PresentMatch(res) ==
    IF res.ok THEN "false"
    ELSE IF res.err \in {"ERROR_OUT_OF_DATE_KHR", "SUBOPTIMAL_KHR"} THEN "true"
    ELSE "panic"

\* Mutant: the result of a call is not checked.
Expect_Unchecked(r) == TRUE

\* .expect(..) on a VkResult: TRUE when the call succeeded, else a panic.
Expect(r) == r = "SUCCESS"

\* Mutant: the fence wait returns without the fence being signaled.
FenceWaitDone_NoWait(k) == TRUE

\* wait_for_fences(&[fence k], true, u64::MAX) returns once fence k is signaled.
FenceWaitDone(k) == inflight_fences[k]

\* Mutant: the fence is left signaled.
FencesAfterReset_Skip(k) == inflight_fences

\* reset_fences(&[fence k]).
FencesAfterReset(k) == [inflight_fences EXCEPT ![k] = FALSE]

\* Mutant: device_wait_idle returns while work is pending.
DeviceIdle_NoWait == TRUE

\* device_wait_idle returns once every queue of the device is idle.
DeviceIdle == gpu_queue = <<>>

\* Mutant: the slot counter is not advanced.
NextFrame_Stuck(cf) == cf

\* (current_frame + 1) % MAX_FRAMES_IN_FLIGHT
NextFrame(cf) == (cf + 1) % MAX_FRAMES_IN_FLIGHT

----------------------------------------------------------------------------
(* Staged buffer uploads: create_vertex_buffer and create_index_buffer of   *)
(* buffers.rs, create_buffer_with_staging of allocation.rs.                 *)

\* Bounds of the upload model: bytes of data, memory offsets the allocator
\* may place a buffer at, live destination buffers.
MaxSize == 2
MaxOffset == 1
MaxUploads == 2

UploadPaths == {"create_vertex_buffer", "create_index_buffer",
                "create_buffer_with_staging"}

\* allocation.rs: buffers are BufferAllocation values (destroyed by Drop) and
\* errors are returned with `?`; buffers.rs: raw handles and .expect(..).
Raii(path) == path = "create_buffer_with_staging"

\* The statements of an upload, in program order.  The one-time command
\* buffer of create_buffer_with_staging is handed to submit_blocking as
\* recorded (finish is not called).
UploadOrder(path) ==
    IF Raii(path)
    THEN <<"create_staging", "create_destination", "map_memory",
           "copy_from_nonoverlapping", "unmap_memory", "begin_command_buffer",
           "cmd_copy_buffer", "queue_submit", "wait", "destroy_staging",
           "return">>
    ELSE <<"create_staging", "map_memory", "copy_from_nonoverlapping",
           "unmap_memory", "create_destination", "begin_command_buffer",
           "cmd_copy_buffer", "queue_submit", "wait", "destroy_staging",
           "return">>

\* Memory offsets a new buffer may get: bind_buffer_memory(buffer, memory, 0)
\* on a dedicated allocation in buffers.rs, a sub-allocation of a vk_mem block
\* in allocation.rs.
Placement(path) == IF Raii(path) THEN 0 .. MaxOffset ELSE {0}

\* The state of an upload of `size` bytes called with `before` live buffer
\* allocations.
NewUpload(path, size, before) ==
    [path |-> path, size |-> size, before |-> before, step |-> 1,
     exit |-> "none", buffers |-> {},
     offset |-> [b \in {"staging", "destination"} |-> 0],
     mapped |-> FALSE, maps |-> 0, unmaps |-> 0, written |-> FALSE,
     region |-> {}, copy |-> "none", copied |-> 0, wait_returned |-> FALSE,
     destroyed |-> {}]

\* The statement the upload is at.
Statement ==
    IF upload.path \in UploadPaths /\ upload.exit = "none"
    THEN UploadOrder(upload.path)[upload.step]
    ELSE "none"

\* destroy_buffer on b: what was true of b when it was destroyed.
DestroyRecord(u, b) ==
    [buffer |-> b,
     mapped |-> (b = "staging" /\ u.mapped),
     pending |-> (u.copy = "pending" /\ ~u.wait_returned)]

\* A statement fails.  buffers.rs: .expect(..) panics and nothing is
\* destroyed.  allocation.rs: `?` returns the error, dropping data_buffer and
\* staging_buffer.
Fail(u) ==
    IF Raii(u.path)
    THEN [u EXCEPT !.exit = "err",
                   !.buffers = {},
                   !.destroyed = @ \cup {DestroyRecord(u, b) : b \in u.buffers}]
    ELSE [u EXCEPT !.exit = "panic"]

\* The statement has run; on to the next one.
Done(u) == [u EXCEPT !.step = @ + 1]

----------------------------------------------------------------------------
(* Swapchain-dependent objects.                                            *)

Kinds == {"command_buffers", "framebuffers", "graphics_pipeline",
          "pipeline_layout", "render_pass", "image_views", "swapchain"}

\* Mutant: the render pass is destroyed before the framebuffers and pipeline.
CleanupOrder_RenderPassFirst ==
    <<"command_buffers", "render_pass", "framebuffers", "graphics_pipeline",
      "pipeline_layout", "image_views", "swapchain">>

\* cleanup_swapchain's destruction order.
CleanupOrder ==
    <<"command_buffers", "framebuffers", "graphics_pipeline",
      "pipeline_layout", "render_pass", "image_views", "swapchain">>

\* Mutant: the command buffers are not re-recorded.
CreateOrder_NoCommandBuffers ==
    <<"swapchain", "image_views", "render_pass", "graphics_pipeline",
      "framebuffers">>

\* recreate_swapchain's creation order (create_graphics_pipeline makes the
\* pipeline layout and the pipeline).
CreateOrder ==
    <<"swapchain", "image_views", "render_pass", "graphics_pipeline",
      "framebuffers", "command_buffers">>

Produces(k) ==
    IF k = "graphics_pipeline" THEN {"graphics_pipeline", "pipeline_layout"}
    ELSE {k}

\* The objects an object of kind k is created from (the handles passed to
\* its create call).
Uses(k) ==
    CASE k = "image_views" -> {"swapchain"}
      [] k = "graphics_pipeline" -> {"render_pass", "pipeline_layout"}
      [] k = "framebuffers" -> {"render_pass", "image_views"}
      [] k = "command_buffers" ->
            {"graphics_pipeline", "framebuffers", "render_pass",
             "pipeline_layout"}
      [] OTHER -> {}

\* Mutant: the handle is not destroyed (leaked).
Destroy_Leak(k) == live

\* destroy_*(self.<k>) / free_command_buffers: the object the field names
\* ceases to exist.
Destroy(k) == live \ {<<k, field[k]>>}

\* The references objects created with the handles f hold.
RefsOf(objs, f) ==
    UNION {{<<o, <<k2, f[k2]>>>> : k2 \in Uses(o[1])} : o \in objs}

----------------------------------------------------------------------------

\* Kinds of per-slot synchronisation objects (struct SyncObjects).
SyncKinds == {"image_available_semaphores", "render_finished_semaphores",
              "inflight_fences"}

\* Mutant: one set of synchronisation objects per swapchain image.
SlotCount_PerImage(n) == n

\* create_sync_objects: for _ in 0..MAX_FRAMES_IN_FLIGHT, whatever the number
\* n of swapchain images.
SlotCount(n) == MAX_FRAMES_IN_FLIGHT

\* update_uniform_buffer(image_index as usize, ..)
UniformBufferIndex == image_index

\* Mutant: the command buffer of the slot is submitted.
CommandBufferIndex_BySlot == current_frame

\* self.command_buffers[image_index as usize]
CommandBufferIndex == image_index

\* image_available_semaphores[current_frame], render_finished_semaphores[
\* current_frame], inflight_fences[current_frame]
SemaphoreIndex == current_frame

\* renderer.rs: the window size asked for; renderer/mod.rs: DIMENSIONS.
WINDOW_WIDTH == 800
WINDOW_HEIGHT == 600
DIMENSIONS == <<800, 600>>

\* Stands for u32::max_value(), the width of an undefined current extent
\* (the model's integers are narrower than u32).
UndefinedExtent == 2147483647

Extent2D(w, h) == [width |-> w, height |-> h]

\* vk::SurfaceCapabilitiesKHR of a surface that fixes the extent to the
\* window size and leaves the image count unbounded.
NoCapabilities ==
    [current_extent |-> Extent2D(WINDOW_WIDTH, WINDOW_HEIGHT),
     min_image_extent |-> Extent2D(WINDOW_WIDTH, WINDOW_HEIGHT),
     max_image_extent |-> Extent2D(WINDOW_WIDTH, WINDOW_HEIGHT),
     min_image_count |-> 1, max_image_count |-> 0]

\* Mutant: the out-of-date acquire falls through to the end of draw_frame.
AfterAcquireRecreate_FallThrough == "advance"

\* The `return` that follows recreate_swapchain in the acquire match.
AfterAcquireRecreate == "return"

\* vk::PresentInfoKHR as built: waits on signal_semaphores, presents
\* image_index.
PresentInfo ==
    [wait_semaphores |-> {SemaphoreIndex}, image_indices |-> {image_index}]

\* A value other than v: what the storage that held v holds once reused.
Clobbered(v) == (v + 1) % (MaxImages + 1)

\* What is read through a pointer to a temporary array that was dropped at
\* the end of the statement that built the structure (builder .build()
\* erases the borrow): the storage still holds the array, or was reused.
DanglingRead(array) == {array, {Clobbered(v) : v \in array}}

\* No FpsLimiter has been built.
NoLimiter ==
    [pc |-> "none", target_frame_duration |-> 0,
     target_frame_duration_micros |-> 0, delta_frame |-> 0,
     real_frame_duration |-> 0, slept |-> {}, elapsed |-> {}]

\* No selection has been made.
NoChoice == [formats |-> <<>>, modes |-> <<>>, capabilities |-> NoCapabilities,
             call |-> "none", output |-> {}]

\* No upload has been called.
NoUpload == NewUpload("none", 1, 0)

\* What a draw_frame call saw and used; the index sets are empty until the
\* statement that selects the resource has run.
NewFrame == [stale |-> 0, recreate |-> 0, suboptimal |-> FALSE,
             submitted |-> FALSE, resized |-> FALSE, after_resize |-> FALSE,
             acquire_semaphore |-> {}, uniform_buffer |-> {},
             command_buffer |-> {}, wait_semaphore |-> {},
             signal_semaphore |-> {}, fence |-> {},
             acquired_image |-> {}, fence_reset |-> {},
             present_wait_semaphore |-> {}, present_image |-> {}]

\* The VulkanApp that VulkanApp::new returns.
RenderInit ==
    /\ pc = "idle"
    /\ rc_ret = "advance"
    /\ step = 1
    /\ current_frame = 0
    /\ inflight_fences = [k \in Slots |-> TRUE]
    /\ gpu_queue = <<>>
    /\ live = Kinds \X {0}
    /\ field = [k \in Kinds |-> 0]
    /\ refs = RefsOf(Kinds \X {0}, [k \in Kinds |-> 0])
    /\ generation = 0
    /\ n_images \in 1 .. MaxImages
    /\ uniform_buffers = n_images
    /\ descriptor_sets = n_images
    /\ image_index = 0
    /\ waited = {}
    /\ frame = NewFrame
    /\ total = [stale |-> 0, recreate |-> 0]
    /\ fatal_error = FALSE
    /\ panic_at = "none"
    /\ destroy_log = <<>>
    /\ slot_log = <<>>
    /\ sync_objects = SyncKinds \X (0 .. (SlotCount(n_images) - 1))

Init ==
    /\ RenderInit
    /\ upload = NoUpload
    /\ choice = NoChoice
    /\ limiter = NoLimiter

\* A panic unwinds out of draw_frame: the render loop is over.
Panic(at, by_error) ==
    /\ pc' = "panicked"
    /\ panic_at' = at
    /\ fatal_error' = (fatal_error \/ by_error)
    /\ UNCHANGED <<rc_ret, step, sync_vars, gpu_queue, fixed_vars, image_index,
                   waited, slot_log>>

\* The event loop calls draw_frame (Event::RedrawRequested).
draw_frame ==
    /\ pc = "idle"
    /\ pc' = "wait_for_fences"
    /\ frame' = [NewFrame EXCEPT !.after_resize = frame.resized]
    /\ waited' = {}
    /\ UNCHANGED <<rc_ret, step, sync_vars, gpu_queue, res_vars, fixed_vars,
                   image_index, total, fatal_error, panic_at, slot_log>>

wait_for_fences ==
    /\ pc = "wait_for_fences"
    /\ \E r \in ExpectResults :
        \/ /\ Expect(r)
           /\ FenceWaitDone(current_frame)
           /\ waited' = {current_frame}
           /\ pc' = "acquire_next_image"
           /\ fatal_error' = (fatal_error \/ r # "SUCCESS")
           /\ UNCHANGED <<rc_ret, step, sync_vars, gpu_queue, res_vars,
                          fixed_vars, image_index, frame, total, panic_at,
                          slot_log>>
        \/ /\ ~Expect(r)
           /\ Panic("wait_for_fences", TRUE)
           /\ UNCHANGED <<frame, total, res_vars>>

\* Entering recreate_swapchain from draw_frame.
CallRecreate(ret, stale) ==
    /\ pc' = "device_wait_idle"
    /\ rc_ret' = ret
    /\ total' = [stale |-> total.stale + stale, recreate |-> total.recreate + 1]

acquire_next_image ==
    /\ pc = "acquire_next_image"
    /\ \E r \in SwapchainResults, i \in 0 .. (n_images - 1) :
        LET res == AshAcquire(r, i)
            m == AcquireMatch(res)
            stale == IF r = "ERROR_OUT_OF_DATE_KHR" THEN 1 ELSE 0
        IN  /\ (r = "ERROR_OUT_OF_DATE_KHR") => (generation < MaxRecreate)
            /\ \/ /\ m = "image"
                  /\ image_index' = res.image
                  /\ pc' = "update_uniform_buffer"
                  /\ frame' = [frame EXCEPT !.stale = @ + stale,
                                            !.suboptimal = @ \/ res.suboptimal,
                                            !.acquire_semaphore =
                                                {SemaphoreIndex},
                                            !.acquired_image = {res.image}]
                  /\ total' = [total EXCEPT !.stale = @ + stale]
                  /\ fatal_error' = (fatal_error \/ r = "ERROR_DEVICE_LOST")
                  /\ UNCHANGED <<rc_ret, step, sync_vars, gpu_queue, res_vars,
                                 fixed_vars, waited, panic_at, slot_log>>
               \/ /\ m = "recreate"
                  /\ CallRecreate(AfterAcquireRecreate, stale)
                  /\ frame' = [frame EXCEPT !.stale = @ + stale,
                                            !.recreate = @ + 1]
                  /\ fatal_error' = (fatal_error \/ r = "ERROR_DEVICE_LOST")
                  /\ UNCHANGED <<step, sync_vars, gpu_queue, res_vars,
                                 fixed_vars, image_index, waited, panic_at,
                                 slot_log>>
               \/ /\ m = "panic"
                  /\ Panic("acquire_next_image", r = "ERROR_DEVICE_LOST")
                  /\ frame' = [frame EXCEPT !.stale = @ + stale]
                  /\ total' = [total EXCEPT !.stale = @ + stale]
                  /\ UNCHANGED res_vars

\* update_uniform_buffer(image_index): indexes uniform_buffers_memory, maps,
\* writes, unmaps.
update_uniform_buffer ==
    /\ pc = "update_uniform_buffer"
    /\ \E r \in ExpectResults :
        \/ /\ UniformBufferIndex < uniform_buffers /\ Expect(r)
           /\ pc' = "reset_fences"
           /\ frame' = [frame EXCEPT !.uniform_buffer = {UniformBufferIndex}]
           /\ fatal_error' = (fatal_error \/ r # "SUCCESS")
           /\ UNCHANGED <<rc_ret, step, sync_vars, gpu_queue, res_vars,
                          fixed_vars, image_index, waited, total, panic_at,
                          slot_log>>
        \/ /\ ~(UniformBufferIndex < uniform_buffers /\ Expect(r))
           /\ Panic("update_uniform_buffer", r # "SUCCESS")
           /\ UNCHANGED <<frame, total, res_vars>>

reset_fences ==
    /\ pc = "reset_fences"
    /\ \E r \in ExpectResults :
        \/ /\ Expect(r)
           /\ inflight_fences' = FencesAfterReset(current_frame)
           /\ pc' = "queue_submit"
           /\ frame' = [frame EXCEPT !.fence_reset = {current_frame}]
           /\ fatal_error' = (fatal_error \/ r # "SUCCESS")
           /\ UNCHANGED <<rc_ret, step, current_frame, gpu_queue, res_vars,
                          fixed_vars, image_index, waited, total, panic_at,
                          slot_log>>
        \/ /\ ~Expect(r)
           /\ Panic("reset_fences", TRUE)
           /\ UNCHANGED <<frame, total, res_vars>>

\* The submission: command_buffers[image_index], fence of the current slot.
Submission ==
    [slot |-> current_frame,
     waited |-> waited,
     cmd |-> <<"command_buffers", field["command_buffers"]>>,
     image |-> image_index]

queue_submit ==
    /\ pc = "queue_submit"
    /\ \E r \in ExpectResults :
        \/ /\ Expect(r)
           /\ gpu_queue' = Append(gpu_queue, Submission)
           /\ frame' = [frame EXCEPT !.submitted = TRUE,
                                     !.command_buffer = {CommandBufferIndex},
                                     !.wait_semaphore = {SemaphoreIndex},
                                     !.signal_semaphore = {SemaphoreIndex},
                                     !.fence = {current_frame}]
           /\ slot_log' = IF Len(slot_log) < 2
                          THEN Append(slot_log, current_frame)
                          ELSE <<slot_log[2], current_frame>>
           /\ pc' = "queue_present"
           /\ fatal_error' = (fatal_error \/ r # "SUCCESS")
           /\ UNCHANGED <<rc_ret, step, sync_vars, res_vars, fixed_vars,
                          image_index, waited, total, panic_at>>
        \/ /\ ~Expect(r)
           /\ Panic("queue_submit", TRUE)
           /\ UNCHANGED <<frame, total, res_vars>>

queue_present ==
    /\ pc = "queue_present"
    /\ \E r \in SwapchainResults,
          image_indices \in DanglingRead(PresentInfo.image_indices) :
        LET res == AshPresent(r)
            m == PresentMatch(res)
            stale == IF r = "ERROR_OUT_OF_DATE_KHR" THEN 1 ELSE 0
        IN  /\ (r = "ERROR_OUT_OF_DATE_KHR") => (generation < MaxRecreate)
            /\ \/ /\ m = "false"
                  /\ pc' = "advance"
                  /\ frame' = [frame EXCEPT
                        !.stale = @ + stale,
                        !.suboptimal = @ \/ res.suboptimal,
                        !.present_wait_semaphore = PresentInfo.wait_semaphores,
                        !.present_image = image_indices]
                  /\ total' = [total EXCEPT !.stale = @ + stale]
                  /\ fatal_error' = (fatal_error \/ r = "ERROR_DEVICE_LOST")
                  /\ UNCHANGED <<rc_ret, step, sync_vars, gpu_queue, res_vars,
                                 fixed_vars, image_index, waited, panic_at,
                                 slot_log>>
               \/ /\ m = "true"
                  /\ CallRecreate("advance", stale)
                  /\ frame' = [frame EXCEPT
                        !.stale = @ + stale,
                        !.suboptimal = @ \/ res.suboptimal,
                        !.recreate = @ + 1,
                        !.present_wait_semaphore = PresentInfo.wait_semaphores,
                        !.present_image = image_indices]
                  /\ fatal_error' = (fatal_error \/ r = "ERROR_DEVICE_LOST")
                  /\ UNCHANGED <<step, sync_vars, gpu_queue, res_vars,
                                 fixed_vars, image_index, waited, panic_at,
                                 slot_log>>
               \/ /\ m = "panic"
                  /\ Panic("queue_present", r = "ERROR_DEVICE_LOST")
                  /\ frame' = [frame EXCEPT
                        !.stale = @ + stale,
                        !.present_wait_semaphore = PresentInfo.wait_semaphores,
                        !.present_image = image_indices]
                  /\ total' = [total EXCEPT !.stale = @ + stale]
                  /\ UNCHANGED res_vars

\* The last statement of draw_frame, and its return.
advance ==
    /\ pc = "advance"
    /\ current_frame' = NextFrame(current_frame)
    /\ pc' = "idle"
    /\ UNCHANGED <<rc_ret, step, inflight_fences, gpu_queue, res_vars,
                   fixed_vars, image_index, waited, frame, total, fatal_error,
                   panic_at, slot_log>>

----------------------------------------------------------------------------
(* recreate_swapchain                                                      *)

device_wait_idle ==
    /\ pc = "device_wait_idle"
    /\ \E r \in ExpectResults :
        \/ /\ Expect(r)
           /\ DeviceIdle
           /\ pc' = "cleanup_swapchain"
           /\ step' = 1
           /\ destroy_log' = <<>>
           /\ fatal_error' = (fatal_error \/ r # "SUCCESS")
           /\ UNCHANGED <<rc_ret, sync_vars, gpu_queue, live, refs, field,
                          generation, n_images, fixed_vars, image_index, waited,
                          frame, total, panic_at, slot_log>>
        \/ /\ ~Expect(r)
           /\ Panic("device_wait_idle", TRUE)
           /\ UNCHANGED <<frame, total, res_vars>>

\* One destroy call of cleanup_swapchain; after the last one recreate_swapchain
\* goes on to create_swapchain, and Drop to the objects that outlive swapchains.
cleanup_swapchain ==
    /\ pc \in {"cleanup_swapchain", "drop_cleanup_swapchain"}
    /\ LET k == CleanupOrder[step]
       IN  /\ live' = Destroy(k)
           /\ refs' = {e \in refs : e[1] \in Destroy(k)}
           /\ destroy_log' = Append(destroy_log, k)
    /\ IF step = Len(CleanupOrder)
       THEN /\ pc' = IF pc = "cleanup_swapchain" THEN "recreate_swapchain"
                     ELSE "drop_device"
            /\ step' = 1
       ELSE pc' = pc /\ step' = step + 1
    /\ UNCHANGED <<rc_ret, sync_vars, gpu_queue, field, generation, n_images,
                   fixed_vars, image_index, waited, frame, total, fatal_error,
                   panic_at, slot_log>>

\* create_command_buffers indexes descriptor_sets[i] for every framebuffer i.
CreatePanics(k) == k = "command_buffers" /\ n_images > descriptor_sets

\* One create call of recreate_swapchain and the assignment of its result to
\* the field(s); after the last one recreate_swapchain returns into draw_frame.
recreate_swapchain ==
    /\ pc = "recreate_swapchain"
    /\ \E r \in ExpectResults, n \in 1 .. MaxImages :
        LET k == CreateOrder[step]
            g == IF k = "swapchain" THEN generation + 1 ELSE generation
            f == [x \in Kinds |-> IF x \in Produces(k) THEN g ELSE field[x]]
            made == Produces(k) \X {g}
        IN  /\ (k # "swapchain") => (n = n_images)
            /\ \/ /\ Expect(r) /\ ~CreatePanics(k)
                  /\ generation' = g
                  /\ n_images' = n
                  /\ field' = f
                  /\ live' = live \cup made
                  /\ refs' = refs \cup RefsOf(made, f)
                  /\ IF step = Len(CreateOrder)
                     THEN /\ step' = 1
                          /\ pc' = IF rc_ret = "return" THEN "idle"
                                   ELSE "advance"
                     ELSE /\ step' = step + 1
                          /\ pc' = pc
                  /\ fatal_error' = (fatal_error \/ r # "SUCCESS")
                  /\ UNCHANGED <<rc_ret, sync_vars, gpu_queue, fixed_vars,
                                 image_index, waited, frame, total, panic_at,
                                 destroy_log, slot_log>>
               \/ /\ ~(Expect(r) /\ ~CreatePanics(k))
                  /\ Panic("recreate_swapchain", r # "SUCCESS")
                  /\ UNCHANGED <<frame, total, res_vars>>

----------------------------------------------------------------------------
(* The event loop around draw_frame, and Drop for VulkanApp                *)

\* WindowEvent::Resized reaches main_loop's handler between two frames: the
\* handler's `_ => {}` arm.  frame.resized only records that it happened.
Resized ==
    /\ pc = "idle"
    /\ frame' = [frame EXCEPT !.resized = TRUE]
    /\ UNCHANGED <<pc, rc_ret, step, sync_vars, gpu_queue, res_vars, fixed_vars,
                   image_index, waited, total, fatal_error, panic_at,
                   slot_log>>

\* WindowEvent::CloseRequested or Escape: ControlFlow::Exit ends the event
\* loop, which drops the handler closure and with it the VulkanApp.
CloseRequested ==
    /\ pc = "idle"
    /\ pc' = "drop"
    /\ UNCHANGED <<rc_ret, step, sync_vars, gpu_queue, res_vars, fixed_vars,
                   image_index, waited, frame, total, fatal_error, panic_at,
                   slot_log>>

\* A panic in draw_frame unwinds through the handler closure: VulkanApp is
\* dropped.
unwind ==
    /\ pc = "panicked"
    /\ pc' = "drop"
    /\ UNCHANGED <<rc_ret, step, sync_vars, gpu_queue, res_vars, fixed_vars,
                   image_index, waited, frame, total, fatal_error, panic_at,
                   slot_log>>

\* Drop: device_wait_idle().expect(..); a panic here ends the process.
drop_device_wait_idle ==
    /\ pc = "drop"
    /\ \E r \in ExpectResults :
        \/ /\ Expect(r)
           /\ DeviceIdle
           /\ pc' = "drop_sync_objects"
           /\ destroy_log' = <<>>
           /\ fatal_error' = (fatal_error \/ r # "SUCCESS")
           /\ UNCHANGED panic_at
        \/ /\ ~Expect(r)
           /\ pc' = "aborted"
           /\ panic_at' = "drop"
           /\ fatal_error' = TRUE
           /\ UNCHANGED destroy_log
    /\ UNCHANGED <<rc_ret, step, sync_vars, gpu_queue, live, refs, field,
                   generation, n_images, fixed_vars, image_index, waited,
                   frame, total, slot_log>>

\* Drop: the loop that destroys the semaphores and the fence of every slot.
drop_sync_objects ==
    /\ pc = "drop_sync_objects"
    /\ sync_objects' = {}
    /\ pc' = "drop_cleanup_swapchain"
    /\ step' = 1
    /\ UNCHANGED <<rc_ret, sync_vars, gpu_queue, res_vars, buf_vars, upload,
                   choice, limiter, image_index, waited, frame, total,
                   fatal_error, panic_at, slot_log>>

\* Drop: descriptor pool, layout, uniform, vertex and index buffers, command
\* pool, device, surface, instance.
drop_device ==
    /\ pc = "drop_device"
    /\ pc' = "dropped"
    /\ UNCHANGED <<rc_ret, step, sync_vars, gpu_queue, res_vars, fixed_vars,
                   image_index, waited, frame, total, fatal_error, panic_at,
                   slot_log>>

----------------------------------------------------------------------------
(* The GPU                                                                 *)

\* The oldest submission completes and signals the fence it was given.
GpuComplete ==
    /\ gpu_queue # <<>>
    /\ inflight_fences' = [inflight_fences EXCEPT ![Head(gpu_queue).slot] = TRUE]
    /\ gpu_queue' = Tail(gpu_queue)
    /\ UNCHANGED <<pc, rc_ret, step, current_frame, res_vars, fixed_vars,
                   image_index, waited, frame, total, fatal_error, panic_at,
                   slot_log>>

Next ==
    \/ draw_frame
    \/ wait_for_fences
    \/ acquire_next_image
    \/ update_uniform_buffer
    \/ reset_fences
    \/ queue_submit
    \/ queue_present
    \/ advance
    \/ device_wait_idle
    \/ cleanup_swapchain
    \/ recreate_swapchain
    \/ Resized
    \/ CloseRequested
    \/ unwind
    \/ drop_device_wait_idle
    \/ drop_sync_objects
    \/ drop_device
    \/ GpuComplete

Spec == Init /\ [][Next]_vars

\* The render loop under its scheduling: the thread inside a draw_frame call
\* (or unwinding, or dropping) takes its next step, and the GPU completes the
\* work submitted to it.  Nothing is assumed about when the event loop, once
\* idle, delivers its next event.
LiveSpec ==
    /\ Init
    /\ [][Next]_vars
    /\ WF_vars(Next /\ pc # "idle")
    /\ WF_vars(GpuComplete)

----------------------------------------------------------------------------
(* The uploads of VulkanApp::new and of VulkanAllocator, statement by       *)
(* statement, and the GPU executing the copy.                               *)

render_vars == <<pc, rc_ret, step, current_frame, inflight_fences, gpu_queue,
                 live, refs, field, generation, n_images, uniform_buffers,
                 descriptor_sets, image_index, waited, frame, total,
                 fatal_error, panic_at, destroy_log, slot_log, sync_objects>>
upload_fixed == <<render_vars, choice, limiter>>

\* Live buffer allocations.
Allocations(u) == u.before + Cardinality(u.buffers)

\* The vk::BufferCopy recorded: copy_buffer leaves both offsets at the
\* builder's 0; OneTimeCommandBuffer::copy sets them to the offsets of the two
\* allocations in their memory blocks.
CopyRegion(u) ==
    [size |-> u.size,
     src_offset |-> IF Raii(u.path) THEN u.offset["staging"] ELSE 0,
     dst_offset |-> IF Raii(u.path) THEN u.offset["destination"] ELSE 0]

\* Mutant: the mapping is left in place.
AfterUnmap_StillMapped(u) == u

\* unmap_memory(staging_buffer_memory) / Drop for TemporaryMemoryMapping.
AfterUnmap(u) == [u EXCEPT !.mapped = FALSE, !.unmaps = @ + 1]

\* Mutant: the wait returns while the copy is executing.
CopyWaitDone_NoWait == TRUE

\* queue_wait_idle(submit_queue) / wait_for_fences(&[fence], true, u64::MAX)
\* return success once the submitted copy has completed.
CopyWaitDone == upload.copy = "done"

\* An upload is called: VulkanApp::new calls create_vertex_buffer and then
\* create_index_buffer; create_buffer_with_staging is called per buffer.
upload_call ==
    /\ upload.path = "none" \/ upload.exit \in {"ok", "err"}
    /\ Allocations(upload) < MaxUploads
    /\ \E path \in UploadPaths, size \in 1 .. MaxSize :
          upload' = NewUpload(path, size, Allocations(upload))
    /\ UNCHANGED upload_fixed

\* create_buffer(.., TRANSFER_SRC, HOST_VISIBLE | HOST_COHERENT) /
\* allocate_staging_buffer(size)?
create_staging_buffer ==
    /\ Statement = "create_staging"
    /\ \E r \in ExpectResults, o \in Placement(upload.path) :
          upload' = IF Expect(r)
                    THEN Done([upload EXCEPT !.buffers = @ \cup {"staging"},
                                             !.offset["staging"] = o])
                    ELSE Fail(upload)
    /\ UNCHANGED upload_fixed

\* map_memory(..).expect(..) / staging_buffer.write()?
map_memory ==
    /\ Statement = "map_memory"
    /\ \E r \in ExpectResults :
          upload' = IF Expect(r)
                    THEN Done([upload EXCEPT !.mapped = TRUE, !.maps = @ + 1])
                    ELSE Fail(upload)
    /\ UNCHANGED upload_fixed

copy_from_nonoverlapping ==
    /\ Statement = "copy_from_nonoverlapping"
    /\ upload' = Done([upload EXCEPT !.written = upload.mapped])
    /\ UNCHANGED upload_fixed

unmap_memory ==
    /\ Statement = "unmap_memory"
    /\ upload' = Done(AfterUnmap(upload))
    /\ UNCHANGED upload_fixed

\* create_buffer(.., TRANSFER_DST | .., DEVICE_LOCAL) / allocate_gpu_buffer(..)?
create_destination_buffer ==
    /\ Statement = "create_destination"
    /\ \E r \in ExpectResults, o \in Placement(upload.path) :
          upload' = IF Expect(r)
                    THEN Done([upload EXCEPT !.buffers = @ \cup {"destination"},
                                             !.offset["destination"] = o])
                    ELSE Fail(upload)
    /\ UNCHANGED upload_fixed

\* allocate_command_buffers and begin_command_buffer /
\* create_one_time_command_buffer()?
begin_command_buffer ==
    /\ Statement = "begin_command_buffer"
    /\ \E r \in ExpectResults :
          upload' = IF Expect(r) THEN Done(upload) ELSE Fail(upload)
    /\ UNCHANGED upload_fixed

\* cmd_copy_buffer with the region; copy_buffer then ends the command buffer
\* (.expect), OneTimeCommandBuffer::copy has nothing that fails.
cmd_copy_buffer ==
    /\ Statement = "cmd_copy_buffer"
    /\ \E r \in ExpectResults :
          /\ Raii(upload.path) => r = "SUCCESS"
          /\ upload' = IF Expect(r)
                       THEN Done([upload EXCEPT !.region = {CopyRegion(upload)},
                                                !.copy = "recorded"])
                       ELSE Fail(upload)
    /\ UNCHANGED upload_fixed

\* queue_submit(.., Fence::null()).expect(..) / CommandBufferCreator::submit
copy_queue_submit ==
    /\ Statement = "queue_submit"
    /\ \E r \in ExpectResults :
          upload' = IF Expect(r)
                    THEN Done([upload EXCEPT !.copy = "pending"])
                    ELSE Fail(upload)
    /\ UNCHANGED upload_fixed

\* queue_wait_idle(..).expect(..) / wait_for_fences(..)? of submit_blocking
copy_wait ==
    /\ Statement = "wait"
    /\ \E r \in ExpectResults :
          \/ /\ Expect(r)
             /\ CopyWaitDone
             /\ upload' = Done([upload EXCEPT !.wait_returned = TRUE])
          \/ /\ ~Expect(r)
             /\ upload' = Fail([upload EXCEPT !.wait_returned = TRUE])
    /\ UNCHANGED upload_fixed

\* destroy_buffer(staging_buffer) and free_memory / staging_buffer dropped
\* when create_buffer_with_staging returns Ok.
destroy_staging_buffer ==
    /\ Statement = "destroy_staging"
    /\ upload' = Done([upload EXCEPT
                         !.buffers = @ \ {"staging"},
                         !.destroyed = @ \cup {DestroyRecord(upload, "staging")}])
    /\ UNCHANGED upload_fixed

\* The destination buffer is returned.
upload_return ==
    /\ Statement = "return"
    /\ upload' = [upload EXCEPT !.exit = "ok"]
    /\ UNCHANGED upload_fixed

\* The GPU copies one more byte of the region; the copy completes with the
\* last one.
GpuCopy ==
    /\ upload.copy = "pending"
    /\ upload' = [upload EXCEPT
                    !.copied = @ + 1,
                    !.copy = IF upload.copied + 1 = upload.size THEN "done"
                             ELSE "pending"]
    /\ UNCHANGED upload_fixed

UploadNext ==
    \/ upload_call
    \/ create_staging_buffer
    \/ map_memory
    \/ copy_from_nonoverlapping
    \/ unmap_memory
    \/ create_destination_buffer
    \/ begin_command_buffer
    \/ cmd_copy_buffer
    \/ copy_queue_submit
    \/ copy_wait
    \/ destroy_staging_buffer
    \/ upload_return
    \/ GpuCopy

\* The uploads run in VulkanApp::new, before the first draw_frame.
UploadInit ==
    /\ RenderInit
    /\ upload = NoUpload
    /\ choice = NoChoice
    /\ limiter = NoLimiter

UploadSpec == UploadInit /\ [][UploadNext]_vars

----------------------------------------------------------------------------
(* Surface format and presentation mode selection: create_swapchain of      *)
(* swapchain.rs (ash) and SwapChainWrapper::create (vulkano).               *)

\* Bounds: length of the candidate lists.
MaxFormats == 3
MaxModes == 3

\* (format, color space) pairs a surface may report.
SurfaceFormats ==
    {"B8G8R8A8_UNORM", "R8G8B8A8_SRGB"} \X
    {"SRGB_NONLINEAR", "EXTENDED_SRGB_LINEAR"}

PreferredFormat == <<"B8G8R8A8_UNORM", "SRGB_NONLINEAR">>

PresentModes == {"MAILBOX", "IMMEDIATE", "FIFO"}

\* The non-empty lists over S of length at most n.
Lists(S, n) == UNION {[1 .. k -> S] : k \in 1 .. n}

\* Iterator::find with an equality predicate: the index of the first entry
\* equal to x from position i on, 0 for None.
RECURSIVE find(_, _, _)
find(list, x, i) ==
    IF i > Len(list) THEN 0
    ELSE IF list[i] = x THEN i
    ELSE find(list, x, i + 1)

\* Mutant: the first entry is taken without searching.
choose_swapchain_format_First(formats) ==
    [value |-> formats[1], warned |-> FALSE]

\* VulkanApp::choose_swapchain_format
choose_swapchain_format(formats) ==
    LET i == find(formats, PreferredFormat, 1)
    IN  IF i # 0
        THEN [value |-> formats[i], warned |-> FALSE]
        ELSE [value |-> formats[1], warned |-> TRUE]

\* SwapChainWrapper::choose_surface_format: find(..).unwrap_or_else(..)
choose_surface_format(available_formats) ==
    LET i == find(available_formats, PreferredFormat, 1)
    IN  IF i # 0
        THEN [value |-> available_formats[i], warned |-> FALSE]
        ELSE [value |-> available_formats[1], warned |-> TRUE]

\* Mutant: the first supported mode is taken.
choose_swapchain_presentation_mode_First(modes) ==
    [value |-> modes[1], warned |-> FALSE]

\* VulkanApp::choose_swapchain_presentation_mode
choose_swapchain_presentation_mode(modes) ==
    IF find(modes, "MAILBOX", 1) # 0
    THEN [value |-> "MAILBOX", warned |-> FALSE]
    ELSE IF find(modes, "IMMEDIATE", 1) # 0
         THEN [value |-> "IMMEDIATE", warned |-> TRUE]
         ELSE [value |-> "FIFO", warned |-> TRUE]

\* vulkano's SupportedPresentModes: one flag per mode the surface reports.
SupportedPresentModes(modes) ==
    [mailbox |-> \E i \in DOMAIN modes : modes[i] = "MAILBOX",
     immediate |-> \E i \in DOMAIN modes : modes[i] = "IMMEDIATE",
     fifo |-> \E i \in DOMAIN modes : modes[i] = "FIFO"]

\* SwapChainWrapper::choose_presentation_mode
choose_presentation_mode(available_presentation_modes) ==
    IF available_presentation_modes.mailbox
    THEN [value |-> "MAILBOX", warned |-> FALSE]
    ELSE IF available_presentation_modes.immediate
         THEN [value |-> "IMMEDIATE", warned |-> TRUE]
         ELSE [value |-> "FIFO", warned |-> TRUE]

choose_fixed == <<render_vars, upload, limiter>>

\* create_swapchain: Self::choose_swapchain_format(&support.formats)
call_choose_swapchain_format ==
    /\ choice' = [choice EXCEPT
                    !.call = "choose_swapchain_format",
                    !.output = {choose_swapchain_format(choice.formats)}]
    /\ UNCHANGED choose_fixed

\* SwapChainWrapper::create: Self::choose_surface_format(&supported_formats)
call_choose_surface_format ==
    /\ choice' = [choice EXCEPT
                    !.call = "choose_surface_format",
                    !.output = {choose_surface_format(choice.formats)}]
    /\ UNCHANGED choose_fixed

\* create_swapchain: Self::choose_swapchain_presentation_mode(..)
call_choose_swapchain_presentation_mode ==
    /\ choice' = [choice EXCEPT
                    !.call = "choose_swapchain_presentation_mode",
                    !.output =
                        {choose_swapchain_presentation_mode(choice.modes)}]
    /\ UNCHANGED choose_fixed

\* SwapChainWrapper::create: Self::choose_presentation_mode(present_modes)
call_choose_presentation_mode ==
    /\ choice' = [choice EXCEPT
                    !.call = "choose_presentation_mode",
                    !.output = {choose_presentation_mode(
                                    SupportedPresentModes(choice.modes))}]
    /\ UNCHANGED choose_fixed

ChooseNext ==
    \/ call_choose_swapchain_format
    \/ call_choose_surface_format
    \/ call_choose_swapchain_presentation_mode
    \/ call_choose_presentation_mode

\* The surface reports some formats and modes; the render loop, in which
\* the image count plays its part, has not started.
ChooseInit ==
    /\ RenderInit
    /\ n_images = 1
    /\ upload = NoUpload
    /\ limiter = NoLimiter
    /\ \E formats \in Lists(SurfaceFormats, MaxFormats),
          modes \in Lists(PresentModes, MaxModes) :
          choice = [NoChoice EXCEPT !.formats = formats, !.modes = modes]

ChooseSpec == ChooseInit /\ [][ChooseNext]_vars

----------------------------------------------------------------------------
(* Extent selection: choose_swapchain_extent (ash) and                      *)
(* SwapChainWrapper::choose_extent (vulkano).                               *)

\* Bound: extents the surface reports lie within MaxDelta of the window size.
MaxDelta == 1

Widths == (WINDOW_WIDTH - MaxDelta) .. (WINDOW_WIDTH + MaxDelta)
Heights == (WINDOW_HEIGHT - MaxDelta) .. (WINDOW_HEIGHT + MaxDelta)

\* Capabilities a surface may report: the current extent is defined or is
\* the undefined value in both components; min <= max in each component.
ExtentCapabilities ==
    {[NoCapabilities EXCEPT !.current_extent = c,
                            !.min_image_extent = Extent2D(w[1], h[1]),
                            !.max_image_extent = Extent2D(w[2], h[2])] :
        c \in {Extent2D(x, y) : x \in Widths, y \in Heights}
              \cup {Extent2D(UndefinedExtent, UndefinedExtent)},
        w \in {p \in Widths \X Widths : p[1] <= p[2]},
        h \in {p \in Heights \X Heights : p[1] <= p[2]}}

\* Mutant: the lower bound is not applied.
clamp_NoLowerBound(val, min, max) == IF val < max THEN val ELSE max

\* nalgebra::clamp(val, min, max)
clamp(val, min, max) ==
    IF val > min THEN (IF val < max THEN val ELSE max) ELSE min

\* Ord::max and Ord::min
Ord_max(a, b) == IF b >= a THEN b ELSE a
Ord_min(a, b) == IF a <= b THEN a ELSE b

\* VulkanApp::choose_swapchain_extent
choose_swapchain_extent(capabilities) ==
    IF capabilities.current_extent.width # UndefinedExtent
    THEN capabilities.current_extent
    ELSE Extent2D(clamp(WINDOW_WIDTH, capabilities.min_image_extent.width,
                        capabilities.max_image_extent.width),
                  clamp(WINDOW_HEIGHT, capabilities.min_image_extent.height,
                        capabilities.max_image_extent.height))

\* vulkano's Capabilities::current_extent: None (the empty set) when the
\* surface reports the undefined value.
CurrentExtentOption(capabilities) ==
    IF capabilities.current_extent.width = UndefinedExtent
       /\ capabilities.current_extent.height = UndefinedExtent
    THEN {}
    ELSE {capabilities.current_extent}

\* SwapChainWrapper::choose_extent:
\* min_image_extent[i].max(max_image_extent[i]).min(actual_extent[i])
choose_extent(capabilities) ==
    IF CurrentExtentOption(capabilities) # {}
    THEN CHOOSE current_extent \in CurrentExtentOption(capabilities) : TRUE
    ELSE Extent2D(
           Ord_min(Ord_max(capabilities.min_image_extent.width,
                           capabilities.max_image_extent.width),
                   DIMENSIONS[1]),
           Ord_min(Ord_max(capabilities.min_image_extent.height,
                           capabilities.max_image_extent.height),
                   DIMENSIONS[2]))

\* create_swapchain: Self::choose_swapchain_extent(&support.capabilities)
call_choose_swapchain_extent ==
    /\ choice' = [choice EXCEPT
                    !.call = "choose_swapchain_extent",
                    !.output = {choose_swapchain_extent(choice.capabilities)}]
    /\ UNCHANGED choose_fixed

\* SwapChainWrapper::create: Self::choose_extent(&capabilities)
call_choose_extent ==
    /\ choice' = [choice EXCEPT
                    !.call = "choose_extent",
                    !.output = {choose_extent(choice.capabilities)}]
    /\ UNCHANGED choose_fixed

ExtentNext ==
    \/ call_choose_swapchain_extent
    \/ call_choose_extent

ExtentInit ==
    /\ RenderInit
    /\ n_images = 1
    /\ upload = NoUpload
    /\ limiter = NoLimiter
    /\ \E capabilities \in ExtentCapabilities :
          choice = [NoChoice EXCEPT !.capabilities = capabilities]

ExtentSpec == ExtentInit /\ [][ExtentNext]_vars

----------------------------------------------------------------------------
(* Image count of the swapchain: create_swapchain (ash) and                 *)
(* SwapChainWrapper::create (vulkano).                                      *)

\* Bound: the largest image count a surface reports.
MaxImageCount == 8

\* Capabilities a surface may report: at least one image; the maximum is 0
\* (no maximum) or at least the minimum.
ImageCountCapabilities ==
    {[NoCapabilities EXCEPT !.min_image_count = c[1], !.max_image_count = c[2]] :
        c \in {p \in (1 .. MaxImageCount) \X (0 .. MaxImageCount) :
                  p[2] = 0 \/ p[2] >= p[1]}}

\* Mutant: the maximum is ignored.
create_swapchain_image_count_Unbounded(capabilities) ==
    capabilities.min_image_count + 1

\* create_swapchain: min + 1, brought under the maximum when there is one.
create_swapchain_image_count(capabilities) ==
    LET image_count == capabilities.min_image_count + 1
    IN  IF capabilities.max_image_count > 0
        THEN Ord_min(image_count, capabilities.max_image_count)
        ELSE image_count

\* vulkano's Capabilities::max_image_count: None (the empty set) when the
\* surface reports 0.
MaxImageCountOption(capabilities) ==
    IF capabilities.max_image_count = 0 THEN {}
    ELSE {capabilities.max_image_count}

\* SwapChainWrapper::create: the match on capabilities.max_image_count.
wrapper_image_count(capabilities) ==
    IF \E max_image_count \in MaxImageCountOption(capabilities) :
           capabilities.min_image_count + 1 > max_image_count
    THEN CHOOSE max_image_count \in MaxImageCountOption(capabilities) : TRUE
    ELSE capabilities.min_image_count + 1

call_create_swapchain_image_count ==
    /\ choice' = [choice EXCEPT
                    !.call = "create_swapchain",
                    !.output = {create_swapchain_image_count(choice.capabilities)}]
    /\ UNCHANGED choose_fixed

call_wrapper_image_count ==
    /\ choice' = [choice EXCEPT
                    !.call = "SwapChainWrapper::create",
                    !.output = {wrapper_image_count(choice.capabilities)}]
    /\ UNCHANGED choose_fixed

ImageCountNext ==
    \/ call_create_swapchain_image_count
    \/ call_wrapper_image_count

ImageCountInit ==
    /\ RenderInit
    /\ n_images = 1
    /\ upload = NoUpload
    /\ limiter = NoLimiter
    /\ \E capabilities \in ImageCountCapabilities :
          choice = [NoChoice EXCEPT !.capabilities = capabilities]

ImageCountSpec == ImageCountInit /\ [][ImageCountNext]_vars

----------------------------------------------------------------------------
(* FpsLimiter: durations are whole nanoseconds, as in std::time::Duration.  *)

NANOS_PER_SEC == 1000000000
NANOS_PER_MICRO == 1000

\* Duration::as_micros and Duration::subsec_micros
as_micros(d) == d \div NANOS_PER_MICRO
subsec_micros(d) == (d % NANOS_PER_SEC) \div NANOS_PER_MICRO

\* Duration::from_secs_f32(1. / FPS_LIMIT) with FPS_LIMIT = 60: the f32
\* quotient is 0.016666668; the conversion yields 16666667 ns or, where it
\* multiplies in f32, 16666668 ns, depending on the standard library.
TargetFrameDurations == {16666667, 16666668}

\* The margin added to the target in tick's condition, in microseconds.
SleepMargin == 1000

\* Bound: frame times are sampled JitterStep apart, up to MaxJitter steps to
\* either side of each point of interest.
MaxJitter == 1
JitterStep == 500 * NANOS_PER_MICRO

\* Times the previous frame may have taken: around nothing, around the
\* target less the margin, the target, the target plus the margin, one
\* second and two seconds.
FrameDurations(target) ==
    {d \in {b + (k * JitterStep) :
               b \in {0, target - (SleepMargin * NANOS_PER_MICRO), target,
                      target + (SleepMargin * NANOS_PER_MICRO),
                      NANOS_PER_SEC, 2 * NANOS_PER_SEC},
               k \in (0 - MaxJitter) .. MaxJitter} : d >= 0}

\* thread::sleep returns after at least the duration asked for.
SleepOverrun == {0, JitterStep}

\* FpsLimiter::new
FpsLimiter_new(target_frame_duration) ==
    [NoLimiter EXCEPT !.pc = "idle",
                      !.target_frame_duration = target_frame_duration,
                      !.target_frame_duration_micros =
                          as_micros(target_frame_duration),
                      !.delta_frame = 0]

\* tick: let real_frame_duration = self.last_frame_time.elapsed();
tick ==
    /\ limiter.pc = "idle"
    /\ \E d \in FrameDurations(limiter.target_frame_duration) :
          limiter' = [limiter EXCEPT !.pc = "sleep",
                                     !.real_frame_duration = d,
                                     !.slept = {}, !.elapsed = {}]
    /\ UNCHANGED <<render_vars, upload, choice>>

\* tick: the condition and the sleep.  Subtracting a longer Duration from
\* a shorter one panics.
tick_sleep ==
    /\ limiter.pc = "sleep"
    /\ IF as_micros(limiter.real_frame_duration)
            < limiter.target_frame_duration_micros + SleepMargin
       THEN IF limiter.target_frame_duration < limiter.real_frame_duration
            THEN limiter' = [limiter EXCEPT !.pc = "panicked"]
            ELSE \E overrun \in SleepOverrun :
                   LET d == limiter.target_frame_duration
                            - limiter.real_frame_duration
                   IN  limiter' =
                         [limiter EXCEPT
                            !.pc = "measure",
                            !.slept = {d},
                            !.elapsed =
                                {limiter.real_frame_duration + d + overrun}]
       ELSE limiter' = [limiter EXCEPT
                          !.pc = "measure",
                          !.elapsed = {limiter.real_frame_duration}]
    /\ UNCHANGED <<render_vars, upload, choice>>

\* tick: self.delta_frame = self.last_frame_time.elapsed().subsec_micros();
\* self.last_frame_time = Instant::now();
tick_measure ==
    /\ limiter.pc = "measure"
    /\ \E e \in limiter.elapsed :
          limiter' = [limiter EXCEPT !.pc = "idle",
                                     !.delta_frame = subsec_micros(e)]
    /\ UNCHANGED <<render_vars, upload, choice>>

FpsNext ==
    \/ tick
    \/ tick_sleep
    \/ tick_measure

FpsInit ==
    /\ RenderInit
    /\ n_images = 1
    /\ upload = NoUpload
    /\ choice = NoChoice
    /\ \E target_frame_duration \in TargetFrameDurations :
          limiter = FpsLimiter_new(target_frame_duration)

FpsSpec == FpsInit /\ [][FpsNext]_vars

----------------------------------------------------------------------------
(* Properties                                                              *)

\* The objects a submission's command buffer reaches through references.
Deps(objs) == {e[2] : e \in {x \in refs : x[1] \in objs}}
Reach(o) ==
    LET d1 == Deps({o})
        d2 == d1 \cup Deps(d1)
        d3 == d2 \cup Deps(d2)
    IN  {o} \cup d3

ReturnsFromDrawFrame == pc # "idle" /\ pc' = "idle"

\* C1: every submission outstanding on the GPU was made by a draw_frame call
\* that had waited on the fence of the submission's slot and seen it
\* signaled, the CPU holds a slot between its wait and its submit only while
\* that slot has nothing outstanding, and no slot has two submissions
\* outstanding at once.
C1_WaitBeforeSubmit ==
    /\ \A i \in DOMAIN gpu_queue : gpu_queue[i].waited = {gpu_queue[i].slot}
    /\ \A i, j \in DOMAIN gpu_queue :
          i # j => gpu_queue[i].slot # gpu_queue[j].slot
    /\ pc \in {"acquire_next_image", "update_uniform_buffer", "reset_fences",
               "queue_submit"}
          => /\ waited = {current_frame}
             /\ \A i \in DOMAIN gpu_queue : gpu_queue[i].slot # current_frame

\* A slot is submitted on again after the other slot was: slot 0 reused.
C1_Witness ==
    /\ pc = "queue_present"
    /\ slot_log = <<MAX_FRAMES_IN_FLIGHT - 1, 0>>
    /\ \E i \in DOMAIN gpu_queue : gpu_queue[i].slot = 0

\* C2: every submitted command buffer exists, and it and everything it
\* references (framebuffers, image views, render pass, pipeline, swapchain)
\* exist and belong to the current swapchain generation.
C2_NoStaleSubmission ==
    \A i \in DOMAIN gpu_queue :
        \A o \in Reach(gpu_queue[i].cmd) :
            /\ o \in live
            /\ o[2] = generation
            /\ o[2] = field["swapchain"]

\* A frame is in flight on a swapchain that was recreated twice.
C2_Witness ==
    /\ gpu_queue # <<>>
    /\ generation = 2
    /\ Cardinality(Reach(gpu_queue[1].cmd)) = Cardinality(Kinds)

\* C3: whenever recreate_swapchain destroys an object, no submitted frame is
\* still in flight on the GPU.
C3_IdleBeforeDestroy ==
    [][(live' # live /\ live' \subseteq live) => gpu_queue = <<>>]_vars

\* cleanup_swapchain is destroying the objects of a frame that was submitted
\* by the draw_frame call that is recreating the swapchain.
C3_Witness ==
    /\ pc = "cleanup_swapchain"
    /\ step > 1
    /\ rc_ret = "advance"
    /\ frame.submitted

\* C4: the swapchain-dependent objects that exist at any moment all belong to
\* one swapchain generation: no new-generation object exists beside an
\* old-generation one.
C4_NoMixedGenerations ==
    \A a, b \in live : a[2] = b[2]

\* The new pipeline exists, nothing of the old generation does.
C4_Witness ==
    /\ pc = "recreate_swapchain"
    /\ <<"graphics_pipeline", generation>> \in live
    /\ generation > 0
    /\ <<"framebuffers", generation>> \notin live

\* The kinds C5 names, dependent first.
DependentFirst ==
    <<"framebuffers", "graphics_pipeline", "render_pass", "image_views",
      "swapchain">>

IsPrefix(a, b) == Len(a) <= Len(b) /\ \A i \in 1 .. Len(a) : a[i] = b[i]

InDependentFirst(k) == \E i \in 1 .. Len(DependentFirst) : DependentFirst[i] = k

\* C5: cleanup_swapchain destroys framebuffers, pipeline, render pass, image
\* views and swapchain in that order, and no object that exists references
\* one that was destroyed.
C5_DependentFirst ==
    /\ IsPrefix(SelectSeq(destroy_log, InDependentFirst), DependentFirst)
    /\ \A e \in refs : e[1] \in live => e[2] \in live

\* cleanup_swapchain has destroyed the render pass; image views and
\* swapchain still exist.
C5_Witness ==
    /\ pc = "cleanup_swapchain"
    /\ SelectSeq(destroy_log, InDependentFirst) =
          <<"framebuffers", "graphics_pipeline", "render_pass">>
    /\ <<"image_views", field["image_views"]>> \in live

\* C6 (as claimed): in every draw_frame the number of recreate_swapchain
\* calls equals the number of out-of-date reports from acquire and present,
\* so over the run k reports give k recreations; and a draw_frame that got an
\* out-of-date report goes on to return normally: it ends in a panic only if
\* some call returned an error other than the out-of-date signal.
C6_StaleRecovers ==
    /\ frame.recreate = frame.stale
    /\ total.recreate = total.stale
    /\ (pc = "panicked" /\ frame.stale > 0) => fatal_error

\* C7 (as claimed): a draw_frame in which acquire or present reported
\* suboptimal has called recreate_swapchain by the time it advances the slot.
C7_SuboptimalRecreates ==
    (pc = "advance" /\ frame.suboptimal) => frame.recreate >= 1

\* The render loop is over: panicked, or in Drop.
Terminated == {"panicked", "drop", "drop_sync_objects",
               "drop_cleanup_swapchain", "drop_device", "dropped", "aborted"}

\* C8: once a call has returned an error other than the out-of-date signal
\* the loop has panicked; after the panic the CPU runs no further statement
\* of draw_frame (no retry), only Drop, and nothing more is submitted.
C8_OtherErrorsFatal ==
    /\ [](fatal_error => pc \in Terminated)
    /\ [][(pc \in Terminated) =>
            /\ pc' \in Terminated
            /\ UNCHANGED <<current_frame, frame, total, slot_log>>
            /\ Len(gpu_queue') <= Len(gpu_queue)]_vars

\* present failed with a device error after the frame was submitted.
C8_Witness ==
    /\ pc = "panicked"
    /\ fatal_error
    /\ panic_at = "queue_present"
    /\ frame.submitted

\* C9 (as claimed): every draw_frame call that returns has advanced the slot
\* index by one modulo MAX_FRAMES_IN_FLIGHT.
C9_AdvancesEveryFrame ==
    [][ReturnsFromDrawFrame =>
          current_frame' = (current_frame + 1) % MAX_FRAMES_IN_FLIGHT]_vars

\* C9 (amended): a draw_frame that submitted work advances the slot index by
\* one modulo MAX_FRAMES_IN_FLIGHT when it returns, also when present reported
\* out-of-date; one whose acquire reported out-of-date submitted nothing and
\* leaves the index unchanged; successive submissions use successive slots.
C9_AdvancesPerSubmission ==
    /\ [][ReturnsFromDrawFrame =>
            current_frame' = IF frame.submitted
                             THEN (current_frame + 1) % MAX_FRAMES_IN_FLIGHT
                             ELSE current_frame]_vars
    /\ [](Len(slot_log) = 2 =>
            slot_log[2] = (slot_log[1] + 1) % MAX_FRAMES_IN_FLIGHT)

\* draw_frame returned early on an out-of-date acquire, slot 1 being next.
C9_Witness ==
    /\ pc = "idle"
    /\ frame.stale = 1
    /\ ~frame.submitted
    /\ current_frame = 1
    /\ Len(slot_log) > 0

\* C10: at most MAX_FRAMES_IN_FLIGHT submitted frames are incomplete.
C10_InFlightBound ==
    Len(gpu_queue) <= MAX_FRAMES_IN_FLIGHT

\* Exactly MAX_FRAMES_IN_FLIGHT frames are in flight.
C10_Witness ==
    Len(gpu_queue) = MAX_FRAMES_IN_FLIGHT

C12_BuffersMatchImages ==
    pc = "idle" =>
        /\ uniform_buffers = n_images
        /\ descriptor_sets = n_images

\* The statements of recreate_swapchain.
RecreatePcs == {"device_wait_idle", "cleanup_swapchain", "recreate_swapchain"}

\* C13: until Drop there are exactly MAX_FRAMES_IN_FLIGHT image-available
\* semaphores, render-finished semaphores and fences, whatever the image
\* count; no statement of recreate_swapchain changes them or current_frame;
\* they are destroyed only by Drop; and a fence changes state only when
\* draw_frame resets it or the GPU completes a submission.
C13_SlotsSurviveRecreate ==
    /\ [](pc \notin Terminated => sync_objects = SyncKinds \X Slots)
    /\ [](sync_objects \in {SyncKinds \X Slots, {}})
    /\ [][(pc \in RecreatePcs) =>
            UNCHANGED <<sync_objects, current_frame>>]_vars
    /\ [][sync_objects' # sync_objects => pc = "drop_sync_objects"]_vars
    /\ [][inflight_fences' # inflight_fences =>
            (pc = "reset_fences" \/ Len(gpu_queue') < Len(gpu_queue))]_vars

\* draw_frame returned after recreating the swapchain with more images than
\* there are slots, on slot 1, all slots intact.
C13_Witness ==
    /\ pc = "idle"
    /\ frame.recreate = 1
    /\ n_images = MAX_FRAMES_IN_FLIGHT + 1
    /\ current_frame = 1
    /\ sync_objects = SyncKinds \X Slots

C15_StagingAlwaysDestroyed ==
    /\ upload.exit # "none" => "staging" \notin upload.buffers
    /\ \A d \in upload.destroyed : ~d.pending
    /\ upload.exit = "ok" => Allocations(upload) = upload.before + 1

\* C16: a submitted copy finds the staging memory written and unmapped after
\* one map and one unmap; at every exit each map has been matched by one
\* unmap; only a live staging buffer is mapped and no buffer was destroyed
\* while mapped.
C16_MapUnmapMatched ==
    /\ upload.copy \in {"pending", "done"} =>
          /\ upload.written
          /\ ~upload.mapped
          /\ upload.maps = 1
          /\ upload.unmaps = 1
    /\ upload.exit # "none" => (upload.maps = upload.unmaps /\ ~upload.mapped)
    /\ upload.maps = upload.unmaps + (IF upload.mapped THEN 1 ELSE 0)
    /\ upload.mapped => "staging" \in upload.buffers
    /\ \A d \in upload.destroyed : ~d.mapped

\* create_buffer_with_staging returned an error from the submit, after the
\* map and unmap, and dropped both buffers.
C16_Witness ==
    /\ upload.exit = "err"
    /\ upload.maps = 1
    /\ upload.unmaps = 1
    /\ upload.copy = "recorded"
    /\ Cardinality(upload.destroyed) = 2

\* C17 (as claimed): the recorded copy region is [0, size) of the staging
\* buffer to [0, size) of the destination, wherever the allocator placed the
\* two buffers.
C17_CopiesWholeRange ==
    \A g \in upload.region :
        g = [size |-> upload.size, src_offset |-> 0, dst_offset |-> 0]

\* C18 (as claimed): a draw_frame that began after a window-resize event has
\* called recreate_swapchain by the time it returns, whatever acquire and
\* present reported.
C18_ResizeRecreates ==
    (pc = "idle" /\ frame.after_resize) => frame.recreate >= 1

\* The entries of a list.
Range(list) == {list[i] : i \in DOMAIN list}

\* C19: both format selections return the preferred pair whenever the list
\* holds it at any position, and otherwise the first entry, with a warning.
C19_PreferredFormatOrFirst ==
    choice.call \in {"choose_swapchain_format", "choose_surface_format"} =>
        \A o \in choice.output :
            IF PreferredFormat \in Range(choice.formats)
            THEN o.value = PreferredFormat
            ELSE o.value = choice.formats[1] /\ o.warned

\* The preferred pair was found in second position, behind an entry with the
\* preferred format in another colour space.
C19_Witness ==
    /\ choice.call = "choose_surface_format"
    /\ choice.formats = <<<<"B8G8R8A8_UNORM", "EXTENDED_SRGB_LINEAR">>,
                          PreferredFormat>>
    /\ choice.output = {[value |-> PreferredFormat, warned |-> FALSE]}

\* C20: both mode selections return MAILBOX whenever the list holds it,
\* otherwise IMMEDIATE whenever the list holds it, otherwise FIFO, whatever
\* the order of the list.
C20_ModePriority ==
    choice.call \in {"choose_swapchain_presentation_mode",
                     "choose_presentation_mode"} =>
        \A o \in choice.output :
            o.value = IF "MAILBOX" \in Range(choice.modes) THEN "MAILBOX"
                      ELSE IF "IMMEDIATE" \in Range(choice.modes)
                           THEN "IMMEDIATE"
                           ELSE "FIFO"

\* MAILBOX was chosen from a list that names it last.
C20_Witness ==
    /\ choice.call = "choose_swapchain_presentation_mode"
    /\ choice.modes = <<"FIFO", "IMMEDIATE", "MAILBOX">>
    /\ \E o \in choice.output : o.value = "MAILBOX"

\* val brought into [min, max].
Clamped(val, min, max) == IF val < min THEN min ELSE IF val > max THEN max ELSE val

\* C21: choose_swapchain_extent returns a defined current extent unchanged,
\* and for an undefined one the window size clamped component-wise into
\* [min_image_extent, max_image_extent].
C21_ExtentCurrentOrClamped ==
    choice.call = "choose_swapchain_extent" =>
        \A o \in choice.output :
            LET c == choice.capabilities
            IN  IF c.current_extent.width # UndefinedExtent
                THEN o = c.current_extent
                ELSE /\ o.width = Clamped(WINDOW_WIDTH, c.min_image_extent.width,
                                         c.max_image_extent.width)
                     /\ o.height = Clamped(WINDOW_HEIGHT,
                                          c.min_image_extent.height,
                                          c.max_image_extent.height)

\* The current extent is undefined, the window is narrower than the minimum
\* and taller than the maximum: both components were clamped.
C21_Witness ==
    /\ choice.call = "choose_swapchain_extent"
    /\ choice.capabilities.current_extent.width = UndefinedExtent
    /\ choice.capabilities.min_image_extent.width = WINDOW_WIDTH + 1
    /\ choice.capabilities.max_image_extent.height = WINDOW_HEIGHT - 1
    /\ choice.output = {Extent2D(WINDOW_WIDTH + 1, WINDOW_HEIGHT - 1)}

\* C28: when the surface reports no current extent, the extent
\* SwapChainWrapper::choose_extent returns lies component-wise within
\* [min_image_extent, max_image_extent].
C28_WrapperExtentWithinBounds ==
    (choice.call = "choose_extent"
     /\ CurrentExtentOption(choice.capabilities) = {}) =>
        \A o \in choice.output :
            LET c == choice.capabilities
            IN  /\ c.min_image_extent.width <= o.width
                /\ o.width <= c.max_image_extent.width
                /\ c.min_image_extent.height <= o.height
                /\ o.height <= c.max_image_extent.height

\* C22: both swapchain creations request min_image_count + 1 images when
\* there is no maximum (0) or min + 1 <= max, and max otherwise; the count
\* is never below min_image_count.
C22_ImageCountClamped ==
    choice.call \in {"create_swapchain", "SwapChainWrapper::create"} =>
        \A image_count \in choice.output :
            LET min == choice.capabilities.min_image_count
                max == choice.capabilities.max_image_count
            IN  /\ image_count = IF max = 0 \/ min + 1 <= max THEN min + 1
                                 ELSE max
                /\ image_count >= min

\* The surface allows exactly three images: min + 1 exceeds the maximum and
\* the maximum is requested.
C22_Witness ==
    /\ choice.call = "create_swapchain"
    /\ choice.capabilities.min_image_count = 3
    /\ choice.capabilities.max_image_count = 3
    /\ choice.output = {3}

\* C23: update_uniform_buffer(image_index) never writes a uniform buffer
\* while a submitted frame that reads the same buffer (same image index, on
\* whichever slot) is still in flight on the GPU.
C23_NoUniformWriteWhileRead ==
    [][(pc = "update_uniform_buffer" /\ pc' = "reset_fences") =>
          \A k \in DOMAIN gpu_queue :
              gpu_queue[k].image # UniformBufferIndex]_vars

\* C24: provided submitted GPU work completes and no Vulkan call fails, every
\* draw_frame call eventually returns to the event loop.
C24_DrawFrameReturns ==
    (pc = "wait_for_fences") ~> (pc = "idle" \/ fatal_error)

\* The current call received an out-of-date report from acquire: it called
\* recreate_swapchain without having acquired an image.
AcquireOutOfDate == frame.recreate >= 1 /\ frame.acquired_image = {}

\* C25: when acquire reports an out-of-date swapchain, the call submits no
\* work, presents nothing, does not reset the slot's in-flight fence (which
\* stays signaled), writes no uniform buffer and leaves current_frame at the
\* slot it waited on, up to and after its return.
C25_OutOfDateAcquireOnlyRecreates ==
    AcquireOutOfDate =>
        /\ ~frame.submitted
        /\ frame.fence = {}
        /\ frame.present_image = {}
        /\ frame.present_wait_semaphore = {}
        /\ frame.fence_reset = {}
        /\ frame.uniform_buffer = {}
        /\ frame.recreate = 1
        /\ waited = {current_frame}
        /\ inflight_fences[current_frame]

\* The call has returned after the recreation that the out-of-date acquire
\* started, while work of an earlier frame was submitted on the other slot.
C25_Witness ==
    /\ AcquireOutOfDate
    /\ pc = "idle"
    /\ generation = 1
    /\ Len(slot_log) = 1
    /\ slot_log[1] # current_frame

\* C26: in a frame on slot k the submitted work waits on slot k's
\* image-available semaphore, the one the frame's acquire signals, and
\* signals slot k's render-finished semaphore and in-flight fence; the
\* presentation follows the submission, waits on that render-finished
\* semaphore and presents the image acquired in the same frame.
C26_FrameOrder ==
    /\ frame.submitted =>
          /\ frame.acquired_image # {}
          /\ frame.acquire_semaphore = waited
          /\ frame.wait_semaphore = frame.acquire_semaphore
          /\ frame.signal_semaphore = waited
          /\ frame.fence = waited
    /\ frame.present_image # {} =>
          /\ frame.submitted
          /\ frame.present_wait_semaphore = frame.signal_semaphore
          /\ frame.present_image = frame.acquired_image

\* C27: every destroy call of cleanup_swapchain, in recreate_swapchain and
\* in Drop, is given a handle that still exists (no handle is destroyed
\* twice), and none is made after the device has been destroyed.
C27_NoDoubleDestroy ==
    [][(destroy_log' # destroy_log
        /\ pc \in {"cleanup_swapchain", "drop_cleanup_swapchain"}) =>
          /\ <<CleanupOrder[step], field[CleanupOrder[step]]>> \in live
          /\ pc' # "dropped"]_vars

\* C29: tick sleeps only when at least 1000 us remain to the target frame
\* duration, the duration it sleeps for is never negative, and tick never
\* panics.
C29_SleepsOnlyAboveOneMs ==
    /\ limiter.pc # "panicked"
    /\ \A d \in limiter.slept :
          /\ d >= 0
          /\ limiter.target_frame_duration_micros
                - as_micros(limiter.real_frame_duration) >= 1000

\* C30: after tick, delta_frame is the whole number of microseconds that
\* elapsed since the previous tick, also for a second or more.
C30_DeltaIsElapsedMicros ==
    (limiter.pc = "idle" /\ limiter.elapsed # {}) =>
        \A e \in limiter.elapsed : limiter.delta_frame = as_micros(e)

====
